---- MODULE Spec2Model ----
(***************************************************************************)
(* A state-machine model of pdd (src/pdd.c): option parsing and            *)
(* validation, the copy engine copy_file with its abort path               *)
(* cleanup_and_exit, the asynchronous signal handler and the throttled     *)
(* progress display.  Sizes are bytes.  Floating point quantities that     *)
(* only feed formatted text (speed, eta, size strings) are left out; the   *)
(* percentage is kept as an integer.                                       *)
(***************************************************************************)
EXTENDS Integers, Sequences, FiniteSets, TLC

\* ------------------------------------------------------------------ bounds
MaxSrcSize == 2
MaxCount == 2
MaxSkip == 1
MaxArgs == 3

\* ------------------------------------------------------- program constants
DEFAULT_BLOCK_SIZE == 128 * 1024
MAX_BLOCK_SIZE == 128 * 1024 * 1024
MIN_BLOCK_SIZE == 512
DEFAULT_BAR_WIDTH == 20
UPDATE_INTERVAL == 10000
STDIN_FILENO == 0
STDOUT_FILENO == 1
EXIT_SUCCESS == 0
EXIT_FAILURE == 1
NoFd == -1
NULL == "NULL"
Running == -1

VARIABLES
    pc,              \* position of the main line of execution
    opts,            \* Options
    stop_requested,  \* static volatile sig_atomic_t stop_requested
    exit_status,     \* process exit status, Running before the exit
    stderr,          \* diagnostics written so far (message tags)
    HAVE_DIRECT_IO,  \* build-time platform switch
    src_kind,        \* what the input descriptor refers to
    src_size,        \* bytes the source delivers before end of input
    in_fd, out_fd,   \* in_file.fd, out_file.fd
    open_fds,        \* descriptors currently open in the process
    n_open,          \* number of files opened so far (open, mkstemp)
    open_flags,      \* flags passed to open() for each stream
    buffer,          \* void *buffer of copy_file
    rel_log,         \* release calls made so far: free / close(fd)
    in_pos, out_pos, \* file offsets of source and destination
    stats,           \* CopyStats
    total_bytes,     \* size_t total_bytes of copy_file
    progress,        \* ProgressInfo
    bytes_read,      \* ssize_t bytes_read of the current iteration
    reads,           \* number of read() calls issued on the source
    out_calls,       \* write() and flush calls on the destination so far
    disp,            \* statics of display_progress
    screen,          \* percentage of the frame on the terminal line, -1 none
    final_frames,    \* frames rendered after the copy loop ended
    summary,         \* <<records in, records out>> once printed
    direct_check,    \* how the direct I/O verification went
    probe            \* whether bs= was given, whether optimize_block_size ran

vars == <<pc, opts, stop_requested, exit_status, stderr, HAVE_DIRECT_IO,
          src_kind, src_size, in_fd, out_fd, open_fds, n_open, open_flags,
          buffer, rel_log, in_pos, out_pos, stats, total_bytes, progress,
          bytes_read, reads, out_calls, disp, screen, final_frames, summary,
          direct_check, probe>>

\* ------------------------------------------------------- inputs (bounded)
\* a size argument: its decimal digits (negative: none) and what follows them
Arg(n, s) == [digits |-> n, suffix |-> s]
\* the option names of option_handlers, and one name that is not in the table
OptionNames == {"if", "of", "bs", "count", "skip", "seek", "sync", "direct",
                "fsync", "platform", "bogus"}
\* bs= values: 0, 1, 2, 129M, and a bad suffix
BsArgs == {Arg(0, ""), Arg(1, ""), Arg(2, ""), Arg(129, "M"), Arg(1, "x")}
CountArgs == {Arg(n, "") : n \in 1..MaxCount}
SkipArgs == {Arg(n, "") : n \in 1..MaxSkip}
SeekArgs == {Arg(1, "")}
InPaths == {"a"}
OutPaths == {"a", "b"}
SrcKinds == {"reg", "pipe", "blk"}
TimeDeltas == {0, UPDATE_INTERVAL \div 2, UPDATE_INTERVAL}
SectorSizes == {0, 512, 4096}

\* ------------------------------------------------------------ pure helpers
Min(a, b) == IF a < b THEN a ELSE b

\* parse_size: digits with an optional K/M/G suffix; 0 when there are no
\* digits or the suffix is not recognised
parse_size(a) ==
    IF a.digits < 0 THEN 0
    ELSE CASE a.suffix = "K" -> a.digits * 1024
           [] a.suffix = "M" -> a.digits * (1024 * 1024)
           [] a.suffix = "G" -> a.digits * (1024 * 1024 * 1024)
           [] a.suffix = ""  -> a.digits
           [] OTHER          -> 0

\* handle_bs: the test that rejects a parsed block size
handle_bs_rejects(bs) == bs = 0 \/ bs > MAX_BLOCK_SIZE

\* main: Options opts = { defaults }
DefaultOptions ==
    [if_path |-> "-", of_path |-> "-", block_size |-> DEFAULT_BLOCK_SIZE,
     count |-> 0, skip |-> 0, seek |-> 0,
     sync_flag |-> FALSE, direct_flag |-> FALSE, fsync_flag |-> FALSE]

Init ==
    /\ pc = "parse"
    /\ opts = DefaultOptions
    /\ stop_requested = 0
    /\ exit_status = Running
    /\ stderr = <<>>
    /\ HAVE_DIRECT_IO \in BOOLEAN
    /\ src_kind \in SrcKinds
    /\ src_size \in 0..MaxSrcSize
    /\ in_fd = NoFd
    /\ out_fd = NoFd
    /\ open_fds = {0, 1, 2}
    /\ n_open = 0
    /\ open_flags = [in |-> {}, out |-> {}]
    /\ buffer = NULL
    /\ rel_log = <<>>
    /\ in_pos = 0
    /\ out_pos = 0
    /\ stats = [blocks_copied |-> 0, total_bytes_copied |-> 0, elapsed_ok |-> FALSE]
    /\ total_bytes = 0
    /\ progress = [bar_width |-> 0, progress |-> 0]
    /\ bytes_read = 0
    /\ reads = 0
    /\ out_calls = [writes |-> 0, req |-> 0, flushes |-> 0]
    /\ disp = [last_update_set |-> FALSE, update_count |-> 0, display_interval |-> 1]
    /\ screen = -1
    /\ final_frames = 0
    /\ summary = <<>>
    /\ direct_check = "none"
    /\ probe = [configured |-> FALSE, called |-> FALSE, result |-> 0]

\* state that only copy_file touches
engine == <<in_fd, out_fd, open_fds, n_open, open_flags, buffer, rel_log,
            in_pos, out_pos, stats, total_bytes, progress, bytes_read,
            reads, out_calls, disp, screen, final_frames, summary>>
env == <<HAVE_DIRECT_IO, src_kind, src_size>>

\* exit(status) outside copy_file
Exit(where, status, msgs) ==
    /\ pc' = where
    /\ exit_status' = status
    /\ stderr' = stderr \o msgs

\* the values an option can take on the command line; one placeholder
\* (never read) when the option is absent
Values(given, name, set) == IF name \in given THEN set ELSE {CHOOSE v \in set : TRUE}

\* main: the loop over argv with parse_option and the handle_* functions
ParseOptions ==
    /\ pc = "parse"
    /\ \E given \in SUBSET OptionNames :
         /\ Cardinality(given) <= MaxArgs
         /\ probe' = [probe EXCEPT !.configured = "bs" \in given]
         /\ \E ifp \in Values(given, "if", InPaths),
               ofp \in Values(given, "of", OutPaths),
               bs \in Values(given, "bs", BsArgs),
               cnt \in Values(given, "count", CountArgs),
               sk \in Values(given, "skip", SkipArgs),
               se \in Values(given, "seek", SeekArgs) :
              LET parsed ==
                    [if_path |-> IF "if" \notin given THEN opts.if_path ELSE ifp,
                     of_path |-> IF "of" \notin given THEN opts.of_path ELSE ofp,
                     block_size |-> IF "bs" \notin given THEN opts.block_size
                                    ELSE parse_size(bs),
                     count |-> IF "count" \notin given THEN opts.count ELSE parse_size(cnt),
                     skip |-> IF "skip" \notin given THEN opts.skip ELSE parse_size(sk),
                     seek |-> IF "seek" \notin given THEN opts.seek ELSE parse_size(se),
                     sync_flag |-> "sync" \in given,
                     direct_flag |-> "direct" \in given,
                     fsync_flag |-> "fsync" \in given]
                  bad_bs == "bs" \in given /\ handle_bs_rejects(parse_size(bs))
              IN  \/ /\ "platform" \in given
                     /\ Exit("info", EXIT_SUCCESS, <<>>)
                     /\ UNCHANGED opts
                  \/ /\ "bogus" \in given
                     /\ Exit("rejected", EXIT_FAILURE, <<"error: unknown option">>)
                     /\ UNCHANGED opts
                  \/ /\ bad_bs
                     /\ Exit("rejected", EXIT_FAILURE, <<"error: invalid block size">>)
                     /\ opts' = [opts EXCEPT !.block_size = parse_size(bs)]
                  \/ /\ "platform" \notin given /\ "bogus" \notin given /\ ~bad_bs
                     /\ opts' = parsed
                     /\ pc' = "validate"
                     /\ UNCHANGED <<exit_status, stderr>>
    /\ UNCHANGED <<stop_requested, direct_check, engine, env>>

\* check_direct_io: true only when the throwaway write completes exactly
DirectOutcomes == {"mkstemp_fail", "fcntl_fail", "write_fail", "ok"}
check_direct_io(outcome) == outcome = "ok"

\* variant of direct_flag_after: the flag is never cleared
direct_flag_kept(have, flag, tested) == flag

\* validate_options: the value of opts->direct_flag it leaves behind
\* (tested is "no_buffer" when allocate_aligned_buffer returned NULL)
direct_flag_after(have, flag, tested) ==
    IF ~flag THEN FALSE
    ELSE IF have THEN (IF tested = "no_buffer" THEN TRUE
                       ELSE check_direct_io(tested))
    ELSE FALSE

\* validate_options: the warnings it prints about direct I/O
direct_warnings(have, flag, bs, tested) ==
    IF ~flag THEN <<>>
    ELSE IF have
         THEN (IF bs % 512 # 0 THEN <<"warning: block size not a multiple of 512">>
               ELSE <<>>)
              \o (IF tested # "no_buffer" /\ ~check_direct_io(tested)
                  THEN <<"warning: falling back to buffered I/O">> ELSE <<>>)
    ELSE <<"warning: direct I/O is not supported">>

\* validate_options
ValidateOptions ==
    /\ pc = "validate"
    /\ IF opts.block_size = 0
       THEN /\ Exit("rejected", EXIT_FAILURE, <<"error: block size cannot be zero">>)
            /\ UNCHANGED <<opts, direct_check, n_open>>
       ELSE \E tested \in DirectOutcomes \cup {"no_buffer"} :
              LET ran == opts.direct_flag /\ HAVE_DIRECT_IO
                  same == opts.if_path = opts.of_path /\ opts.if_path # "-"
                  warn == direct_warnings(HAVE_DIRECT_IO, opts.direct_flag,
                                          opts.block_size, tested)
              IN  /\ ~ran => tested = "ok"
                  /\ direct_check' = IF ran THEN tested ELSE "none"
                  \* mkstemp opened (and check_direct_io closed) a temporary file
                  /\ n_open' = IF ran /\ tested \notin {"no_buffer", "mkstemp_fail"}
                               THEN n_open + 1 ELSE n_open
                  /\ opts' = [opts EXCEPT !.direct_flag =
                                direct_flag_after(HAVE_DIRECT_IO, opts.direct_flag, tested)]
                  /\ IF same
                     THEN Exit("rejected", EXIT_FAILURE,
                               warn \o <<"error: input and output files are the same">>)
                     ELSE /\ pc' = "open_in"
                          /\ stderr' = stderr \o warn
                          /\ UNCHANGED exit_status
    /\ UNCHANGED <<stop_requested, probe, in_fd, out_fd, open_fds, open_flags, buffer,
                   rel_log, in_pos, out_pos, stats, total_bytes, progress,
                   bytes_read, reads, out_calls, disp, screen, final_frames, summary, env>>

\* open_file: the flags handed to open()
open_file_flags(is_input, o, have) ==
    (IF is_input THEN {"O_RDONLY"} ELSE {"O_WRONLY", "O_CREAT", "O_TRUNC"})
    \cup (IF have /\ o.direct_flag THEN {"O_DIRECT"} ELSE {})
    \cup (IF ~is_input /\ o.sync_flag THEN {"O_SYNC"} ELSE {})

\* open(): the lowest descriptor number not in use
LowestFree(fds) == CHOOSE f \in 0..8 : f \notin fds /\ \A g \in 0..(f - 1) : g \in fds

\* variant of cleanup_releases: the input descriptor is not closed
cleanup_releases_leaks_input(in, out, buf) ==
    (IF buf # NULL THEN <<<<"free">>>> ELSE <<>>)
    \o (IF out # -1 THEN <<<<"close", out>>>> ELSE <<>>)

\* cleanup_and_exit: the releases it performs, in order
cleanup_releases(in, out, buf) ==
    (IF buf # NULL THEN <<<<"free">>>> ELSE <<>>)
    \o (IF in # -1 THEN <<<<"close", in>>>> ELSE <<>>)
    \o (IF out # -1 THEN <<<<"close", out>>>> ELSE <<>>)

\* variant of cleanup_status: the abort path exits with success
cleanup_status_success == EXIT_SUCCESS

\* cleanup_and_exit: the status handed to exit()
cleanup_status == EXIT_FAILURE

\* HANDLE_ERROR with a true condition: cleanup_and_exit(in, out, buf, msg)
cleanup_and_exit(in, out, buf, msg) ==
    /\ stderr' = Append(stderr, msg)
    /\ rel_log' = rel_log \o cleanup_releases(in, out, buf)
    /\ open_fds' = open_fds \ ((IF in # -1 THEN {in} ELSE {})
                               \cup (IF out # -1 THEN {out} ELSE {}))
    /\ exit_status' = cleanup_status
    /\ pc' = "aborted"

\* copy_file: open input file
OpenInput ==
    /\ pc = "open_in"
    /\ \/ /\ opts.if_path = "-"
          /\ in_fd' = STDIN_FILENO
          /\ pc' = "open_out"
          /\ UNCHANGED <<open_fds, n_open, open_flags, stderr, rel_log, exit_status>>
       \/ /\ opts.if_path # "-"
          /\ in_fd' = LowestFree(open_fds)
          /\ open_fds' = open_fds \cup {LowestFree(open_fds)}
          /\ n_open' = n_open + 1
          /\ open_flags' = [open_flags EXCEPT !.in =
                               open_file_flags(TRUE, opts, HAVE_DIRECT_IO)]
          /\ pc' = "open_out"
          /\ UNCHANGED <<stderr, rel_log, exit_status>>
       \/ /\ opts.if_path # "-"
          /\ in_fd' = -1
          /\ open_flags' = [open_flags EXCEPT !.in =
                               open_file_flags(TRUE, opts, HAVE_DIRECT_IO)]
          /\ cleanup_and_exit(-1, -1, NULL, "error opening input file")
          /\ UNCHANGED n_open
    /\ UNCHANGED <<opts, stop_requested, out_fd, buffer, in_pos, out_pos, stats,
                   total_bytes, progress, bytes_read, reads, out_calls, disp, screen,
                   final_frames, summary, direct_check, probe, env>>

\* copy_file: open output file
OpenOutput ==
    /\ pc = "open_out"
    /\ \/ /\ opts.of_path = "-"
          /\ out_fd' = STDOUT_FILENO
          /\ pc' = "sizing"
          /\ UNCHANGED <<open_fds, n_open, open_flags, stderr, rel_log, exit_status>>
       \/ /\ opts.of_path # "-"
          /\ out_fd' = LowestFree(open_fds)
          /\ open_fds' = open_fds \cup {LowestFree(open_fds)}
          /\ n_open' = n_open + 1
          /\ open_flags' = [open_flags EXCEPT !.out =
                               open_file_flags(FALSE, opts, HAVE_DIRECT_IO)]
          /\ pc' = "sizing"
          /\ UNCHANGED <<stderr, rel_log, exit_status>>
       \/ /\ opts.of_path # "-"
          /\ out_fd' = -1
          /\ open_flags' = [open_flags EXCEPT !.out =
                               open_file_flags(FALSE, opts, HAVE_DIRECT_IO)]
          /\ cleanup_and_exit(in_fd, -1, NULL, "error opening output file")
          /\ UNCHANGED n_open
    /\ UNCHANGED <<opts, stop_requested, in_fd, buffer, in_pos, out_pos, stats,
                   total_bytes, progress, bytes_read, reads, out_calls, disp, screen,
                   final_frames, summary, direct_check, probe, env>>

\* optimize_block_size: r is the ioctl's answer, -1 when it fails or the
\* platform has no block-size ioctl
optimize_block_size(kind, r) ==
    IF kind = "blk" /\ r > 0 THEN r ELSE DEFAULT_BLOCK_SIZE

\* copy_file: the test that decides whether optimize_block_size is called
sizing_needed(bs) == bs = 0

\* copy_file: optimize block size if not specified
Sizing ==
    /\ pc = "sizing"
    /\ IF sizing_needed(opts.block_size)
       THEN \E r \in SectorSizes \cup {-1} :
              /\ opts' = [opts EXCEPT !.block_size = optimize_block_size(src_kind, r)]
              /\ probe' = [probe EXCEPT !.called = TRUE,
                                        !.result = optimize_block_size(src_kind, r)]
       ELSE UNCHANGED <<opts, probe>>
    /\ pc' = "alloc"
    /\ UNCHANGED <<stop_requested, exit_status, stderr, direct_check, engine, env>>

\* copy_file: allocate aligned buffer
Allocate ==
    /\ pc = "alloc"
    /\ \/ /\ buffer' = "buf"
          /\ pc' = "skip"
          /\ UNCHANGED <<stderr, rel_log, open_fds, exit_status>>
       \/ /\ buffer' = NULL
          /\ cleanup_and_exit(in_fd, out_fd, NULL, "error allocating aligned memory")
    /\ UNCHANGED <<opts, stop_requested, in_fd, out_fd, n_open, open_flags, in_pos,
                   out_pos, stats, total_bytes, progress, bytes_read, reads, out_calls, disp,
                   screen, final_frames, summary, direct_check, probe, env>>

\* variant of block_offset: the block count used as a byte offset
block_offset_unscaled(blocks, bs) == blocks

\* the offset handed to lseek for skip= and seek=
block_offset(blocks, bs) == blocks * bs

\* lseek on the source: a pipe cannot be repositioned
SourceSeekable(kind) == kind # "pipe"

\* copy_file: handle skip
Skip ==
    /\ pc = "skip"
    /\ \/ /\ opts.skip > 0 => SourceSeekable(src_kind)
          /\ in_pos' = IF opts.skip > 0 THEN block_offset(opts.skip, opts.block_size)
                       ELSE in_pos
          /\ pc' = "seek"
          /\ UNCHANGED <<stderr, rel_log, open_fds, exit_status>>
       \/ /\ opts.skip > 0
          /\ cleanup_and_exit(in_fd, out_fd, buffer, "error skipping input blocks")
          /\ UNCHANGED in_pos
    /\ UNCHANGED <<opts, stop_requested, in_fd, out_fd, n_open, open_flags, buffer,
                   out_pos, stats, total_bytes, progress, bytes_read, reads, out_calls, disp,
                   screen, final_frames, summary, direct_check, probe, env>>

\* copy_file: handle seek
Seek ==
    /\ pc = "seek"
    /\ \/ /\ out_pos' = IF opts.seek > 0 THEN block_offset(opts.seek, opts.block_size)
                        ELSE out_pos
          /\ pc' = "total"
          /\ UNCHANGED <<stderr, rel_log, open_fds, exit_status>>
       \/ /\ opts.seek > 0
          /\ cleanup_and_exit(in_fd, out_fd, buffer, "error seeking output blocks")
          /\ UNCHANGED out_pos
    /\ UNCHANGED <<opts, stop_requested, in_fd, out_fd, n_open, open_flags, buffer,
                   in_pos, stats, total_bytes, progress, bytes_read, reads, out_calls, disp,
                   screen, final_frames, summary, direct_check, probe, env>>

\* copy_file: determine total bytes for progress calculation
\* (fstat_ok: fstat succeeded)
total_bytes_for(o, fd, kind, size, fstat_ok) ==
    IF o.count > 0 THEN o.count * o.block_size
    ELSE IF fd # STDIN_FILENO /\ fstat_ok /\ kind = "reg" THEN size
    ELSE 0

DetermineTotal ==
    /\ pc = "total"
    /\ \E fstat_ok \in BOOLEAN :
         total_bytes' = total_bytes_for(opts, in_fd, src_kind, src_size, fstat_ok)
    /\ pc' = "loop"
    /\ UNCHANGED <<opts, stop_requested, exit_status, stderr, in_fd, out_fd, open_fds,
                   n_open, open_flags, buffer, rel_log, in_pos, out_pos, stats,
                   progress, bytes_read, reads, out_calls, disp, screen, final_frames, summary,
                   direct_check, probe, env>>

\* variants of loop_condition: the limit test off by one; the flag not tested
loop_condition_off_by_one(stop, count, blocks) ==
    stop = 0 /\ (count = 0 \/ blocks <= count)
loop_condition_ignores_stop(stop, count, blocks) ==
    count = 0 \/ blocks < count

\* copy_file: the condition of the main copy loop
loop_condition(stop, count, blocks) ==
    stop = 0 /\ (count = 0 \/ blocks < count)

\* read(in_file.fd, buffer, block_size): what it can return short of an
\* error; a regular file or block device fills the request up to end of
\* input, a pipe may return any shorter non-empty amount
Remaining(size, pos) == IF pos < size THEN size - pos ELSE 0
read_results(kind, bs, rem) ==
    IF rem = 0 THEN {0}
    ELSE IF kind = "pipe" THEN 1..Min(bs, rem)
    ELSE {Min(bs, rem)}

\* copy_file: loop test, read, end-of-file break and read error
LoopRead ==
    /\ pc = "loop"
    /\ loop_condition(stop_requested, opts.count, stats.blocks_copied)
    /\ reads' = reads + 1
    /\ \/ \E n \in read_results(src_kind, opts.block_size, Remaining(src_size, in_pos)) :
            /\ bytes_read' = n
            /\ in_pos' = in_pos + n
            /\ pc' = IF n = 0 THEN "final" ELSE "write"
            /\ UNCHANGED <<stderr, rel_log, open_fds, exit_status>>
       \/ /\ bytes_read' = -1
          /\ cleanup_and_exit(in_fd, out_fd, buffer, "error reading")
          /\ UNCHANGED in_pos
    /\ UNCHANGED <<opts, stop_requested, in_fd, out_fd, n_open, open_flags, buffer,
                   out_pos, stats, total_bytes, progress, out_calls, disp, screen,
                   final_frames, summary, direct_check, probe, env>>

\* copy_file: the loop condition is false
LoopEnd ==
    /\ pc = "loop"
    /\ ~loop_condition(stop_requested, opts.count, stats.blocks_copied)
    /\ pc' = "final"
    /\ UNCHANGED <<opts, stop_requested, exit_status, stderr, direct_check, probe, engine, env>>

\* write(out_file.fd, buffer, bytes_read): complete, one byte short, or -1
write_results(n) == {n, n - 1, -1}

\* variant of count_block: the bytes are added but the block is not counted
count_block_bytes_only(st, n, elapsed_ok) ==
    [blocks_copied |-> st.blocks_copied,
     total_bytes_copied |-> st.total_bytes_copied + n,
     elapsed_ok |-> elapsed_ok]

\* variant of count_block: the byte counter assigned instead of added to
count_block_assigns(st, n, elapsed_ok) ==
    [blocks_copied |-> st.blocks_copied + 1,
     total_bytes_copied |-> n,
     elapsed_ok |-> elapsed_ok]

\* copy_file: the counters after a block went through
count_block(st, n, elapsed_ok) ==
    [blocks_copied |-> st.blocks_copied + 1,
     total_bytes_copied |-> st.total_bytes_copied + n,
     elapsed_ok |-> elapsed_ok]

\* calculate_progress (st.elapsed_ok: elapsed_time >= 0.1)
calculate_progress(info, st, total) ==
    IF ~st.elapsed_ok THEN info
    ELSE [bar_width |-> DEFAULT_BAR_WIDTH,
          progress |-> IF total > 0 THEN (st.total_bytes_copied * 100) \div total
                       ELSE 0]

\* display_progress: the throttle; delta is the time since last_update in
\* microseconds
display_throttled(dp, delta) ==
    /\ dp.last_update_set
    /\ delta < UPDATE_INTERVAL
    /\ ~(dp.update_count < 10 /\ delta >= UPDATE_INTERVAL \div 2)

\* display_progress: statics, terminal line and whether a frame was drawn
display_progress(dp, info, line, delta) ==
    IF display_throttled(dp, delta)
    THEN [disp |-> dp, screen |-> line, rendered |-> FALSE]
    ELSE [disp |-> [dp EXCEPT !.last_update_set = TRUE,
                              !.update_count = dp.update_count + 1],
          screen |-> info.progress, rendered |-> TRUE]

\* copy_file: the adaptive display interval
next_display_interval(blocks, cur) ==
    IF blocks >= 100 THEN 10 ELSE IF blocks >= 1000 THEN 100 ELSE cur

\* variant of write_request: a whole block is written whatever was read
write_request_full_block(n, bs) == bs

\* copy_file: the length handed to write() after a read of n bytes
write_request(n, bs) == n

\* copy_file: write, optional flush, counters, progress
WriteBlock ==
    /\ pc = "write"
    /\ LET req == write_request(bytes_read, opts.block_size) IN
       \E w \in write_results(req), f \in {0, -1}, tick \in BOOLEAN,
          delta \in TimeDeltas :
         IF w # bytes_read
         THEN /\ f = 0 /\ ~tick /\ delta = 0
              /\ out_pos' = out_pos + (IF w > 0 THEN w ELSE 0)
              /\ out_calls' = [out_calls EXCEPT !.writes = @ + 1, !.req = req]
              /\ cleanup_and_exit(in_fd, out_fd, buffer, "error writing")
              /\ UNCHANGED <<stats, progress, disp, screen>>
         ELSE IF opts.fsync_flag /\ f = -1
         THEN /\ ~tick /\ delta = 0
              /\ out_pos' = out_pos + w
              /\ out_calls' = [out_calls EXCEPT !.writes = @ + 1, !.req = req,
                                                !.flushes = @ + 1]
              /\ cleanup_and_exit(in_fd, out_fd, buffer, "error syncing")
              /\ UNCHANGED <<stats, progress, disp, screen>>
         ELSE LET st == count_block(stats, bytes_read, stats.elapsed_ok \/ tick)
                  info == calculate_progress(progress, st, total_bytes)
                  shown == st.blocks_copied <= 10
                           \/ st.blocks_copied % disp.display_interval = 0
                  d == display_progress(disp, info, screen, delta)
              IN  /\ opts.fsync_flag \/ f = 0
                  /\ stats.elapsed_ok => tick
                  /\ ~shown => delta = 0
                  /\ out_pos' = out_pos + w
                  /\ out_calls' = [out_calls EXCEPT !.writes = @ + 1, !.req = req,
                                     !.flushes = IF opts.fsync_flag THEN @ + 1 ELSE @]
                  /\ stats' = st
                  /\ progress' = info
                  /\ disp' = IF shown
                             THEN [d.disp EXCEPT !.display_interval =
                                     next_display_interval(st.blocks_copied, @)]
                             ELSE disp
                  /\ screen' = IF shown THEN d.screen ELSE screen
                  /\ pc' = "loop"
                  /\ UNCHANGED <<stderr, rel_log, open_fds, exit_status>>
    /\ UNCHANGED <<opts, stop_requested, in_fd, out_fd, n_open, open_flags, buffer,
                   in_pos, total_bytes, bytes_read, reads, final_frames, summary,
                   direct_check, probe, env>>

\* copy_file: make sure progress bar is fully filled before showing summary
FinalProgress ==
    /\ pc = "final"
    /\ IF total_bytes > 0
       THEN \E delta \in TimeDeltas :
              LET info == [progress EXCEPT !.progress = 100]
                  d == display_progress(disp, info, screen, delta)
              IN  /\ progress' = info
                  /\ disp' = d.disp
                  /\ screen' = d.screen
                  /\ final_frames' = final_frames + (IF d.rendered THEN 1 ELSE 0)
       ELSE UNCHANGED <<progress, disp, screen, final_frames>>
    /\ pc' = "summary"
    /\ UNCHANGED <<opts, stop_requested, exit_status, stderr, in_fd, out_fd, open_fds,
                   n_open, open_flags, buffer, rel_log, in_pos, out_pos, stats,
                   total_bytes, bytes_read, reads, out_calls, summary, direct_check, probe, env>>

\* copy_file: "N+0 records in" / "N+0 records out"
summary_lines(st) == <<st.blocks_copied, st.blocks_copied>>

Summary ==
    /\ pc = "summary"
    /\ summary' = summary_lines(stats)
    /\ pc' = "release"
    /\ UNCHANGED <<opts, stop_requested, exit_status, stderr, in_fd, out_fd, open_fds,
                   n_open, open_flags, buffer, rel_log, in_pos, out_pos, stats,
                   total_bytes, progress, bytes_read, reads, out_calls, disp, screen,
                   final_frames, direct_check, probe, env>>

\* variant of normal_releases: the descriptors are closed before the free
normal_releases_closes_first(in, out) ==
    << <<"close", in>>, <<"close", out>>, <<"free">> >>

\* copy_file: the releases on the normal path, in order
normal_releases(in, out) == << <<"free">>, <<"close", in>>, <<"close", out>> >>

\* copy_file: free the buffer, close both descriptors, return EXIT_SUCCESS;
\* main returns that value
Release ==
    /\ pc = "release"
    /\ rel_log' = rel_log \o normal_releases(in_fd, out_fd)
    /\ open_fds' = open_fds \ {in_fd, out_fd}
    /\ exit_status' = EXIT_SUCCESS
    /\ pc' = "done"
    /\ UNCHANGED <<opts, stop_requested, stderr, in_fd, out_fd, n_open, open_flags,
                   buffer, in_pos, out_pos, stats, total_bytes, progress, bytes_read,
                   reads, out_calls, disp, screen, final_frames, summary, direct_check, probe, env>>

Terminated == pc \in {"done", "aborted", "rejected", "info"}

\* signal_handler, installed by setup_signals before the options are parsed
signal_handler ==
    /\ ~Terminated
    /\ stop_requested' = 1
    /\ UNCHANGED <<pc, opts, exit_status, stderr, direct_check, probe, engine, env>>

Next ==
    \/ ParseOptions
    \/ ValidateOptions
    \/ OpenInput
    \/ OpenOutput
    \/ Sizing
    \/ Allocate
    \/ Skip
    \/ Seek
    \/ DetermineTotal
    \/ LoopRead
    \/ LoopEnd
    \/ WriteBlock
    \/ FinalProgress
    \/ Summary
    \/ Release
    \/ signal_handler

Spec == Init /\ [][Next]_vars

TypeOK ==
    /\ stop_requested \in {0, 1}
    /\ exit_status \in {Running, EXIT_SUCCESS, EXIT_FAILURE}
    /\ in_fd \in {-1, 0, 3} /\ out_fd \in {-1, 1, 3, 4}
    /\ stats.blocks_copied \in Nat /\ stats.total_bytes_copied \in Nat

\* ---------------------------------------------------------------- claims
CeilDiv(a, b) == (a + b - 1) \div b
Count(seq, e) == Cardinality({i \in 1..Len(seq) : seq[i] = e})
Closes(fd) == Count(rel_log, <<"close", fd>>)
Frees == Count(rel_log, <<"free">>)
Handles == {in_fd, out_fd} \ {NoFd}
LastError == IF stderr = <<>> THEN "" ELSE stderr[Len(stderr)]
Blocks == stats.blocks_copied
Bytes == stats.total_bytes_copied
\* a finished copy with no limit, no skip and no cancellation
PlainRun == pc = "done" /\ opts.count = 0 /\ opts.skip = 0 /\ stop_requested = 0

\* C1: with a block-count limit L > 0 the loop issues at most L reads and
\* copies at most L * block_size bytes, whatever the reads return and
\* whenever the cancellation arrives.
C1_LimitBoundsReads ==
    opts.count > 0 =>
        /\ reads <= opts.count
        /\ Bytes <= opts.count * opts.block_size

\* the limit stopped the copy while the source still had data
C1_Witness ==
    /\ pc = "done" /\ opts.count > 0 /\ reads = opts.count
    /\ Bytes = opts.count * opts.block_size
    /\ Remaining(src_size, in_pos) > 0

\* C2 as stated: every plain run of a source of S bytes ends with
\* ceil(S / B) blocks and S bytes, zero blocks after one read when S = 0.
C2_Original ==
    PlainRun =>
        /\ Blocks = CeilDiv(src_size, opts.block_size)
        /\ Bytes = src_size
        /\ src_size = 0 => reads = 1 /\ Blocks = 0

\* C2 amended: a plain run copies exactly S bytes; the block count is
\* ceil(S / B) when every read fills the request up to end of input (regular
\* file, block device); on a pipe each non-empty read counts as one block, so
\* the count lies between ceil(S / B) and S.  S = 0 ends on the first read
\* with zero blocks.
C2_RoundTrip ==
    PlainRun =>
        /\ Bytes = src_size
        /\ src_kind # "pipe" => Blocks = CeilDiv(src_size, opts.block_size)
        /\ CeilDiv(src_size, opts.block_size) <= Blocks /\ Blocks <= src_size
        /\ src_size = 0 => reads = 1 /\ Blocks = 0

\* a regular file of two bytes copied in two one-byte blocks
C2_Witness ==
    /\ PlainRun /\ src_kind = "reg" /\ src_size = 2 /\ opts.block_size = 1
    /\ Blocks = 2 /\ Bytes = 2

\* C3: skip = K puts the source offset at K * B before the first read, and a
\* source of S > K * B bytes then yields exactly S - K * B bytes (no limit, no
\* error, no cancellation).
C3_SkipRepositions ==
    /\ (opts.skip > 0 /\ pc \in {"seek", "total", "loop"} /\ reads = 0)
          => in_pos = opts.skip * opts.block_size
    /\ (pc = "done" /\ opts.count = 0 /\ opts.skip > 0 /\ stop_requested = 0
        /\ src_size > opts.skip * opts.block_size)
          => Bytes = src_size - opts.skip * opts.block_size

\* one block of one byte skipped on a two-byte source
C3_Witness ==
    /\ pc = "done" /\ opts.count = 0 /\ opts.skip = 1 /\ opts.block_size = 1
    /\ stop_requested = 0 /\ src_size = 2 /\ Bytes = 1

FullTransfer ==
    \/ Remaining(src_size, in_pos) = 0
    \/ opts.count > 0 /\ Bytes = opts.count * opts.block_size
ErrorPrinted == \E i \in 1..Len(stderr) : stderr[i] \in
    {"error opening input file", "error opening output file",
     "error allocating aligned memory", "error skipping input blocks",
     "error seeking output blocks", "error reading", "error writing",
     "error syncing"}

\* C5 as stated: a copy ends with success status only when the full
\* requested transfer took place.
C5_Original ==
    (pc = "done" /\ exit_status = EXIT_SUCCESS) => FullTransfer

\* C5 amended: a copy run exits with success status exactly when the loop
\* ended without I/O error: at end of input, at the block-count limit or on
\* cancellation, also when fewer bytes than requested were copied.  Every
\* abort path and every configuration error exits with failure status.
C5_ExitStatus ==
    /\ pc = "done" =>
          /\ exit_status = EXIT_SUCCESS
          /\ ~ErrorPrinted
          /\ \/ bytes_read = 0
             \/ stop_requested = 1
             \/ opts.count > 0 /\ Blocks = opts.count
    /\ pc \in {"aborted", "rejected"} => exit_status = EXIT_FAILURE
    /\ ErrorPrinted => pc = "aborted"
    /\ exit_status = EXIT_SUCCESS => pc \in {"done", "info"}
    /\ exit_status = Running <=> ~Terminated

\* success, never cancelled, with source data left and fewer bytes than the
\* limit asks for: short reads used up the block count
C5_Witness ==
    /\ pc = "done" /\ exit_status = EXIT_SUCCESS /\ stop_requested = 0
    /\ opts.count > 0 /\ Blocks = opts.count
    /\ Bytes < opts.count * opts.block_size /\ Remaining(src_size, in_pos) > 0

\* C6: on every abort each handle obtained so far is closed exactly once and
\* the buffer is freed exactly once iff it was allocated, nothing else is
\* released, and the exit status is failure; when the destination open
\* fails, the source handle is closed once and free is not called.
C6_AbortReleases ==
    pc = "aborted" =>
        /\ \A h \in Handles : Closes(h) = 1 /\ h \notin open_fds
        /\ Frees = (IF buffer # NULL THEN 1 ELSE 0)
        /\ Len(rel_log) = Cardinality(Handles) + Frees
        /\ exit_status = EXIT_FAILURE
        /\ LastError = "error opening output file" =>
              /\ in_fd # NoFd /\ Closes(in_fd) = 1
              /\ Frees = 0 /\ buffer = NULL

\* the destination open failed after the source file was opened
C6_Witness ==
    /\ pc = "aborted" /\ LastError = "error opening output file"
    /\ in_fd = 3 /\ rel_log = << <<"close", 3>> >>

\* C7 as stated: the normal exit frees the buffer and closes the handles the
\* engine opened, and leaves an inherited standard stream open.
C7_Claim ==
    pc = "done" =>
        /\ Frees = 1
        /\ \A h \in Handles \ {STDIN_FILENO, STDOUT_FILENO} :
              Closes(h) = 1 /\ h \notin open_fds
        /\ in_fd = STDIN_FILENO => STDIN_FILENO \in open_fds
        /\ out_fd = STDOUT_FILENO => STDOUT_FILENO \in open_fds

\* C8 as stated: no file is opened and no stream is bound unless
\* 512 <= block_size <= 128 MiB.
C8_Claim ==
    (n_open > 0 \/ in_fd # NoFd \/ out_fd # NoFd) =>
        (MIN_BLOCK_SIZE <= opts.block_size /\ opts.block_size <= MAX_BLOCK_SIZE)

\* C9: when the direct I/O verification write fails, a warning is printed,
\* the flag is cleared while no stream is open yet, and no stream is opened
\* with the direct I/O flag; the run goes on (the witness ends in success).
C9_DirectFallback ==
    direct_check = "write_fail" =>
        /\ \E i \in 1..Len(stderr) : stderr[i] = "warning: falling back to buffered I/O"
        /\ ~opts.direct_flag
        /\ "O_DIRECT" \notin (open_flags.in \cup open_flags.out)
        /\ pc = "open_in" => (in_fd = NoFd /\ out_fd = NoFd)

\* the verification failed, both files were opened buffered, the copy succeeded
C9_Witness ==
    /\ direct_check = "write_fail" /\ pc = "done" /\ exit_status = EXIT_SUCCESS
    /\ open_flags.in = {"O_RDONLY"} /\ "O_WRONLY" \in open_flags.out
    /\ Bytes > 0 /\ ~ErrorPrinted

\* C10 as stated: with a known target, when the summary is printed exactly
\* one frame has been rendered since the loop ended and it shows 100%.
C10_Claim ==
    (summary # <<>> /\ total_bytes > 0) => (final_frames = 1 /\ screen = 100)

\* C11: every write is issued once, with the length just read; a short or
\* failed write or a failed flush aborts at once, without a second write,
\* and leaves the counters as they were: the blocks counted are exactly the
\* writes that completed (and were flushed when fsync is set), the bytes
\* counted are exactly the bytes those writes put at the destination.
C11_WriteThenCount ==
    /\ [][out_calls' # out_calls =>
            /\ pc = "write"
            /\ out_calls'.writes = out_calls.writes + 1
            /\ out_calls'.req = bytes_read
            /\ stats' # stats => (pc' = "loop" /\ exit_status' = Running)
            /\ pc' = "aborted" => stats' = stats]_vars
    /\ [][stats' # stats => out_calls'.writes = out_calls.writes + 1]_vars
    /\ [](pc = "aborted" /\ LastError \in {"error writing", "error syncing"}
            => out_calls.writes = Blocks + 1)
    /\ [](~(pc = "aborted" /\ LastError \in {"error writing", "error syncing"})
            => out_calls.writes = Blocks)
    /\ [](out_calls.flushes = (IF opts.fsync_flag THEN out_calls.writes ELSE 0)
          \/ (LastError = "error writing" /\ out_calls.flushes = Blocks))
    /\ [](pc \in {"loop", "write", "final", "summary", "release", "done"}
            => out_pos = opts.seek * opts.block_size + Bytes)

\* the second write came back short: one block counted, two writes issued
C11_Witness ==
    /\ pc = "aborted" /\ LastError = "error writing"
    /\ Blocks = 1 /\ out_calls.writes = 2 /\ out_calls.req = bytes_read
    /\ Bytes < in_pos

\* what an exit path has to release, given what was acquired
FreeIfAllocated == IF buffer # NULL THEN << <<"free">> >> ELSE <<>>
CloseIfBound(fd) == IF fd # NoFd THEN << <<"close", fd>> >> ELSE <<>>

\* C12 as stated: on every exit path the releases run in reverse order of
\* acquisition: buffer, then destination handle, then source handle.
C12_Original ==
    pc \in {"done", "aborted"} =>
        rel_log = FreeIfAllocated \o CloseIfBound(out_fd) \o CloseIfBound(in_fd)

\* C12 amended: on every exit path, normal and abort, what was acquired so
\* far is released in one fixed order: the buffer first, then the source
\* handle, then the destination handle; nothing is released before the exit
\* path is taken.
C12_ReleaseOrder ==
    /\ pc \in {"done", "aborted"} =>
          rel_log = FreeIfAllocated \o CloseIfBound(in_fd) \o CloseIfBound(out_fd)
    /\ pc \notin {"done", "aborted"} => rel_log = <<>>

\* a file-to-file copy that ended normally
C12_Witness ==
    /\ pc = "done" /\ in_fd = 3 /\ out_fd = 4
    /\ rel_log = << <<"free">>, <<"close", 3>>, <<"close", 4>> >>

\* C13 as stated: when no bs= was given, once Sizing is over the probe has
\* been invoked and the block size in use is the probe's result.
C13_Claim ==
    (~probe.configured /\ pc \in {"alloc", "skip", "seek", "total", "loop",
                                  "write", "final", "summary", "release", "done"})
        => (probe.called /\ opts.block_size = probe.result)

\* C14: the two counters start at zero and change only in a loop iteration
\* that completed, together: one more block and between 1 and block_size
\* more bytes; they never decrease, so blocks <= bytes <= blocks * block_size
\* in every state, and the final progress frame and the summary leave them
\* as they are.
C14_CountersMonotonic ==
    /\ [][(stats'.blocks_copied # Blocks \/ stats'.total_bytes_copied # Bytes) =>
            /\ pc = "write" /\ pc' = "loop"
            /\ stats'.blocks_copied = Blocks + 1
            /\ stats'.total_bytes_copied - Bytes \in 1..opts.block_size
            /\ stats'.total_bytes_copied - Bytes = bytes_read]_vars
    /\ [][(pc \in {"final", "summary", "release"}) => (stats' = stats)]_vars
    /\ [](Blocks <= Bytes /\ Bytes <= Blocks * opts.block_size)
    /\ [](pc \in {"parse", "validate", "open_in", "open_out", "sizing", "alloc",
                  "skip", "seek", "total"} => (Blocks = 0 /\ Bytes = 0))

\* two blocks counted, the second one partial, and the final frame drawn
C14_Witness ==
    /\ pc = "summary" /\ final_frames = 1 /\ screen = 100
    /\ Blocks = 2 /\ opts.block_size = 2 /\ Bytes < Blocks * opts.block_size
    /\ Blocks <= Bytes

====
